---- MODULE Spec2Model ----
(***************************************************************************)
(* Model of the trading monitor (src/trading_monitor.py) and of the parts  *)
(* of the exchange client (src/coinbase_api.py) that a monitoring cycle    *)
(* uses.                                                                   *)
(*                                                                         *)
(* Numbers.  The program computes with floats.  The model computes with    *)
(* integers in fixed-point units chosen so that every product and quotient *)
(* the modelled runs take is exact:                                        *)
(*   - an amount of an asset is counted in 1/AmountScale coins;            *)
(*   - an exchange rate is rate/RateDen (0.92 is 23/25);                   *)
(*   - a fee rate is taker_fee_rate/FeeDen;                                *)
(*   - a price converted to EUR is carried in 1/RateDen EUR;               *)
(*   - the budget and every EUR value of a trade are carried in            *)
(*     1/(AmountScale*RateDen*FeeDen) EUR.                                 *)
(* Time is the wall clock in seconds; datetime.isoformat() followed by     *)
(* datetime.fromisoformat() returns the same instant, so a timestamp is    *)
(* kept as its number of seconds.                                          *)
(***************************************************************************)
EXTENDS Integers, Sequences, FiniteSets, TLC

\* ---- bounds of the model ------------------------------------------------
MaxCycles == 3
MaxRestarts == 1
MaxFetchFails == 2
MaxFaults == 1
MaxCalls == 2
MaxLatency == 1

\* ---- fixed-point units ----------------------------------------------------
AmountScale == 72
RateDen == 25
FeeDen == 100
MoneyScale == AmountScale * RateDen * FeeDen

\* ---- program constants ----------------------------------------------------
USD_TO_EUR_FALLBACK == 23
EUR_USD_RATE_CACHE_SECONDS == 3600
PRICE_HISTORY_DAYS == 7
SOLD_POSITION_DAYS == 30
REENTRY_DIP_MIN == 10
REENTRY_DIP_MAX == 15
Day == 24 * 3600

\* ---- the environment's choices ------------------------------------------------
Assets == {"BTC", "PEPE"}
AccountOrder == <<"BTC", "PEPE">>
\* The ticker of an asset does not move within one cycle; a price request of the
\* cycle returns the cycle's quote or fails.
BtcQuotes == [price : {6, 8, 10, 12}, currency : {"EUR"}] \cup {[price |-> 10, currency |-> "USDC"]}
PepeQuotes == {[price |-> 10, currency |-> "EUR"]}
Markets == {[a \in Assets |-> IF a = "BTC" THEN b ELSE p] : b \in BtcQuotes, p \in PepeQuotes}
NoPrice == [price |-> 0, currency |-> "NONE"]
FreshRates == {22}
FetchScripts == [fails : -1..MaxFetchFails, rate : FreshRates]
Elapsed == {1800, SOLD_POSITION_DAYS * Day + 1800}
\* base_min_size of the venue's pairs, in amount units (2/3 coin)
BaseMinSize == 48

\* ---- configurations accepted by validate_config --------------------------------
Triggers(sell_percent) ==
  [profit_target_percent |-> 25,
   profit_target_sell_percent |-> sell_percent,
   final_profit_target_percent |-> 50,
   stop_loss_percent |-> 15,
   buy_dip_percent |-> 10,
   buy_amount_eur |-> 10,
   buy_assets |-> <<"BTC">>]

Configs ==
  { [trading_budget_eur |-> budget,
     minimum_balance_eur |-> 10,
     taker_fee_rate |-> 1,
     tracked_assets |-> Assets,
     triggers |-> Triggers(sp)] : sp \in {50, 100}, budget \in {25, 5} }

\* ---- configuration files and validate_config ------------------------------------
RequiredFields ==
  {"trading_budget_eur", "minimum_balance_eur", "check_interval_minutes", "dry_run",
   "triggers", "fees", "tracked_assets", "position_tracking"}

RequiredTriggers ==
  {"profit_target_percent", "profit_target_sell_percent",
   "final_profit_target_percent", "stop_loss_percent"}

\* the triggers that monitor_cycle reads and validate_config does not ask for
OptionalTriggers == {"buy_assets", "buy_dip_percent", "buy_amount_eur"}

\* One key at most is missing from the file, from its required triggers and
\* from its fees; any of the other triggers may be missing.  dry_run is given by its JSON literal; tracked_assets and
\* position_tracking by the JSON type of their value.
Documents ==
  [fields : {RequiredFields} \cup {RequiredFields \ {f} : f \in RequiredFields},
   triggers : {RequiredTriggers \cup opt : opt \in SUBSET OptionalTriggers}
              \cup {(RequiredTriggers \ {t}) \cup OptionalTriggers : t \in RequiredTriggers},
   fees : {{"taker_fee_rate"}, {}},
   trading_budget_eur : {25, 0, -5},
   minimum_balance_eur : {10, 0, -1},
   check_interval_minutes : {30, 0},
   dry_run : {"true", "false", "1", "'yes'"},
   tracked_assets : {"list", "string"},
   position_tracking : {"dict", "list"}]

\* validate_config without the checks of the types
ValidateConfigNoTypes(doc) ==
  IF RequiredFields \ doc.fields # {} THEN "ValueError: Missing required config field"
  ELSE IF RequiredTriggers \ doc.triggers # {} THEN "ValueError: Missing required trigger"
  ELSE IF "taker_fee_rate" \notin doc.fees THEN "ValueError: Missing taker_fee_rate in fees"
  ELSE IF doc.trading_budget_eur <= 0 THEN "ValueError: trading_budget_eur must be positive"
  ELSE IF doc.minimum_balance_eur < 0 THEN "ValueError: minimum_balance_eur cannot be negative"
  ELSE IF doc.check_interval_minutes <= 0
       THEN "ValueError: check_interval_minutes must be positive"
  ELSE "ok"

\* validate_config(config): "ok" for True, or the exception it raises
ValidateConfig(doc) ==
  IF RequiredFields \ doc.fields # {} THEN "ValueError: Missing required config field"
  ELSE IF RequiredTriggers \ doc.triggers # {} THEN "ValueError: Missing required trigger"
  ELSE IF "taker_fee_rate" \notin doc.fees THEN "ValueError: Missing taker_fee_rate in fees"
  ELSE IF doc.trading_budget_eur <= 0 THEN "ValueError: trading_budget_eur must be positive"
  ELSE IF doc.minimum_balance_eur < 0 THEN "ValueError: minimum_balance_eur cannot be negative"
  ELSE IF doc.check_interval_minutes <= 0
       THEN "ValueError: check_interval_minutes must be positive"
  ELSE IF doc.dry_run \notin {"true", "false"} THEN "ValueError: dry_run must be a boolean"
  ELSE IF doc.tracked_assets # "list" THEN "ValueError: tracked_assets must be a list"
  ELSE IF doc.position_tracking # "dict"
       THEN "ValueError: position_tracking must be a dictionary"
  ELSE "ok"

\* the file behind a configuration that was accepted
DocumentOf(cfg, dry) ==
  [fields |-> RequiredFields, triggers |-> DOMAIN cfg.triggers,
   fees |-> {"taker_fee_rate"},
   trading_budget_eur |-> cfg.trading_budget_eur,
   minimum_balance_eur |-> cfg.minimum_balance_eur,
   check_interval_minutes |-> 30,
   dry_run |-> IF dry THEN "true" ELSE "false",
   tracked_assets |-> "list", position_tracking |-> "dict"]

\* self.config as load_config returns it for an accepted file
ConfigOf(doc) ==
  [trading_budget_eur |-> doc.trading_budget_eur,
   minimum_balance_eur |-> doc.minimum_balance_eur,
   taker_fee_rate |-> 1,
   tracked_assets |-> Assets,
   triggers |-> [t \in doc.triggers |-> Triggers(50)[t]]]

\* no TradingMonitor has been constructed
NoConfig ==
  [trading_budget_eur |-> 0, minimum_balance_eur |-> 0, taker_fee_rate |-> 0,
   tracked_assets |-> {}, triggers |-> Triggers(0)]

VARIABLES
  document,               \* the configuration file as the operator wrote it
  config,                 \* the static part of self.config
  dry_run,                \* self.config['dry_run']
  position_tracking,      \* self.config['position_tracking']
  sold_positions,         \* self.config['sold_positions']
  price_history,          \* self.config['price_history']
  saved,                  \* the three maps as last written by save_config
  current_eur_balance,    \* self.current_eur_balance
  eur_usd_rate,           \* api.eur_usd_rate, 0 for None
  eur_usd_rate_timestamp, \* api.eur_usd_rate_timestamp
  accounts,               \* the venue's available balance per asset
  market,                 \* the venue's quote per asset in the running cycle
  now,                    \* wall clock, seconds
  pc,                     \* where the process is
  holdings,               \* monitor_cycle's local holdings
  buy_holdings,           \* check_buy_triggers' local holdings
  todo,                   \* what the running loop has still to iterate
  buy_opportunities,      \* check_buy_triggers' result list
  last_check,             \* the last check_triggers call: arguments and result
  last_exec,              \* the last execute_trade call: arguments and outcome
  before,                 \* history: budget and maps when the last decision began
  last_high,              \* history: the last get_7day_high call of check_buy_triggers
  partial_sold,           \* history: assets whose tracked Position had a partial SELL
  too_small,              \* history: assets whose Position had a SELL below the minimum size
  baselined,              \* history: assets whose Position check_triggers created this cycle
  bought,                 \* history: the assets of the BUYs executed this cycle, in order
  cycles,
  restarts,
  faults,                 \* failed venue requests so far (accounts, ticker, order)
  clock,                  \* time.time() as the client reads it, in ticks
  last_request_time,      \* api.last_request_time
  call,                   \* the running client call: its arguments and locals
  result,                 \* what the last finished client call returned
  wire,                   \* history: the last request dispatched to the venue
  tokens_sent,            \* history: the tokens that went out with a request
  minted,                 \* history: how many tokens create_jwt has made
  calls,                  \* client calls started so far
  refreshes,              \* history: when each fetch of the EUR/USD rate began
  product_cache,          \* api.product_cache
  served                  \* history: per pair, the first metadata get_product returned

clientVars == <<clock, last_request_time, call, result, wire, tokens_sent, minted, calls,
                refreshes, product_cache, served>>

rateVars == <<eur_usd_rate, eur_usd_rate_timestamp>>

tradingVars == <<document, config, dry_run, position_tracking, sold_positions, price_history, saved,
          current_eur_balance, accounts, market,
          now, pc, holdings, buy_holdings, todo, buy_opportunities, last_check, last_exec,
          before, last_high, partial_sold, too_small, baselined, bought, cycles, restarts, faults>>

monitorVars == <<tradingVars, rateVars>>

vars == <<monitorVars, clientVars>>

\* ---- dictionaries ------------------------------------------------------------
EmptyMap == [a \in {} |-> 0]
Put(m, k, v) == [a \in DOMAIN m \cup {k} |-> IF a = k THEN v ELSE m[a]]
Del(m, k) == [a \in DOMAIN m \ {k} |-> m[a]]
KeysInOrder(m) == SelectSeq(AccountOrder, LAMBDA a : a \in DOMAIN m)

\* the configuration file after a save_config that ran to its end
Snapshot(pos, sold, hist) ==
  [position_tracking |-> pos, sold_positions |-> sold, price_history |-> hist,
   complete |-> TRUE]

\* the configuration file after open(config_file, 'w') has emptied it and
\* json.dump has written none or only a part of the document
Truncated ==
  [position_tracking |-> EmptyMap, sold_positions |-> EmptyMap,
   price_history |-> EmptyMap, complete |-> FALSE]

\* ---- CurrencyConverter: coinbase_api.py -------------------------------------------
\* A conversion context is the rate cache plus the number of rate fetches the
\* running handler has made.  A fetch script says how the venue answers them:
\* the first script.fails fetches fail and the later ones return script.rate;
\* fails = -1 makes every fetch fail.
Context(rate, ts) == [rate |-> rate, ts |-> ts, n |-> 0]

FetchSucceeds(ctx, script) == script.fails >= 0 /\ ctx.n >= script.fails

GetEurUsdRate(ctx, script) ==
  IF ctx.rate # 0 /\ now - ctx.ts < EUR_USD_RATE_CACHE_SECONDS
  THEN [rate |-> ctx.rate, ctx |-> ctx]
  ELSE IF FetchSucceeds(ctx, script)
       THEN [rate |-> script.rate,
             ctx |-> [rate |-> script.rate, ts |-> now, n |-> ctx.n + 1]]
       ELSE [rate |-> USD_TO_EUR_FALLBACK, ctx |-> [ctx EXCEPT !.n = @ + 1]]

\* convert_to_eur: the result is in 1/RateDen of the argument's unit.
ConvertToEur(amount, currency, ctx, script) ==
  IF currency = "EUR"
  THEN [value |-> amount * RateDen, ctx |-> ctx]
  ELSE IF currency \in {"USD", "USDC", "USDT"}
       THEN LET g == GetEurUsdRate(ctx, script)
            IN [value |-> amount * g.rate, ctx |-> g.ctx]
       ELSE [value |-> amount * RateDen, ctx |-> ctx]

\* ---- TriggerEvaluator: check_triggers ----------------------------------------------
NoTrigger ==
  [action |-> "NONE", reason |-> "none", amount |-> 0, price |-> NoPrice,
   is_full_exit |-> FALSE]

NewPosition(pd, amount) ==
  [entry_price |-> pd.price, entry_currency |-> pd.currency, amount |-> amount,
   entry_time |-> now, total_sold |-> 0, too_small_to_sell |-> FALSE]

\* pct_change >= t and pct_change <= t, for
\* pct_change = ((current - entry) / entry) * 100 and entry > 0
PctAtLeast(current, entry, t) == (current - entry) * 100 >= t * entry
PctAtMost(current, entry, t) == (current - entry) * 100 <= t * entry

\* Decide with the partial-profit rule tried before the final-profit rule
DecidePartialFirst(pos, amount, pd, entry_eur, current_eur, triggers) ==
  IF /\ PctAtLeast(current_eur, entry_eur, triggers.profit_target_percent)
     /\ pos.total_sold = 0
  THEN [action |-> "SELL", reason |-> "Profit target hit",
        amount |-> (pos.amount * triggers.profit_target_sell_percent) \div 100,
        price |-> pd, is_full_exit |-> FALSE]
  ELSE IF PctAtLeast(current_eur, entry_eur, triggers.final_profit_target_percent)
       THEN [action |-> "SELL", reason |-> "Final profit target hit", amount |-> amount,
             price |-> pd, is_full_exit |-> TRUE]
       ELSE IF PctAtMost(current_eur, entry_eur, 0 - triggers.stop_loss_percent)
            THEN [action |-> "SELL", reason |-> "Stop loss hit", amount |-> amount,
                  price |-> pd, is_full_exit |-> TRUE]
            ELSE NoTrigger

\* Decide with the stop loss guarded by total_sold == 0 like the partial rule
DecideStopUnsoldOnly(pos, amount, pd, entry_eur, current_eur, triggers) ==
  IF PctAtLeast(current_eur, entry_eur, triggers.final_profit_target_percent)
  THEN [action |-> "SELL", reason |-> "Final profit target hit", amount |-> amount,
        price |-> pd, is_full_exit |-> TRUE]
  ELSE IF pos.total_sold = 0
       THEN IF PctAtLeast(current_eur, entry_eur, triggers.profit_target_percent)
            THEN [action |-> "SELL", reason |-> "Profit target hit",
                  amount |-> (pos.amount * triggers.profit_target_sell_percent) \div 100,
                  price |-> pd, is_full_exit |-> FALSE]
            ELSE IF PctAtMost(current_eur, entry_eur, 0 - triggers.stop_loss_percent)
                 THEN [action |-> "SELL", reason |-> "Stop loss hit", amount |-> amount,
                       price |-> pd, is_full_exit |-> TRUE]
                 ELSE NoTrigger
       ELSE NoTrigger

\* The decision of lines 134-169, given both prices in EUR.
Decide(pos, amount, pd, entry_eur, current_eur, triggers) ==
  IF PctAtLeast(current_eur, entry_eur, triggers.final_profit_target_percent)
  THEN [action |-> "SELL", reason |-> "Final profit target hit", amount |-> amount,
        price |-> pd, is_full_exit |-> TRUE]
  ELSE IF /\ PctAtLeast(current_eur, entry_eur, triggers.profit_target_percent)
          /\ pos.total_sold = 0
       THEN [action |-> "SELL", reason |-> "Profit target hit",
             amount |-> (pos.amount * triggers.profit_target_sell_percent) \div 100,
             price |-> pd, is_full_exit |-> FALSE]
       ELSE IF PctAtMost(current_eur, entry_eur, 0 - triggers.stop_loss_percent)
            THEN [action |-> "SELL", reason |-> "Stop loss hit", amount |-> amount,
                  price |-> pd, is_full_exit |-> TRUE]
            ELSE NoTrigger

\* check_triggers(asset, amount, current_price_data) on the maps st; the result
\* carries the trigger, the maps after the call and the call's arguments.
CheckTriggers(asset, amount, pd, st, script) ==
  IF asset \notin DOMAIN st.position_tracking
  THEN LET pos == Put(st.position_tracking, asset, NewPosition(pd, amount))
       IN [trigger |-> NoTrigger, tracked |-> FALSE,
           entry_price_eur |-> 0, current_price_eur |-> 0,
           st |-> [st EXCEPT !.position_tracking = pos,
                             !.saved = Snapshot(pos, st.sold_positions, st.price_history),
                             !.partial_sold = @ \ {asset}, !.too_small = @ \ {asset}]]
  ELSE LET pos == st.position_tracking[asset]
           e == ConvertToEur(pos.entry_price, pos.entry_currency, st.ctx, script)
           c == ConvertToEur(pd.price, pd.currency, e.ctx, script)
       IN [trigger |-> Decide(pos, amount, pd, e.value, c.value, config.triggers),
           tracked |-> TRUE,
           entry_price_eur |-> e.value, current_price_eur |-> c.value,
           st |-> [st EXCEPT !.ctx = c.ctx]]

\* ---- OrderExecutor: execute_trade -------------------------------------------------------
\* FullExit with the re-entry window taken from the price-history window
FullExitShortWindow(asset, pd, amount, st) ==
  LET sold == Put(st.sold_positions, asset,
                  [sale_price |-> pd.price, sale_currency |-> pd.currency,
                   sale_timestamp |-> now, sale_amount |-> amount,
                   expires_at |-> now + PRICE_HISTORY_DAYS * Day])
      pos == Del(st.position_tracking, asset)
  IN [st EXCEPT !.sold_positions = sold, !.position_tracking = pos,
                !.saved = Snapshot(pos, sold, st.price_history),
                !.partial_sold = @ \ {asset}, !.too_small = @ \ {asset}]

\* record_sold_position followed by the removal of the Position (a full exit)
FullExit(asset, pd, amount, st) ==
  LET sold == Put(st.sold_positions, asset,
                  [sale_price |-> pd.price, sale_currency |-> pd.currency,
                   sale_timestamp |-> now, sale_amount |-> amount,
                   expires_at |-> now + SOLD_POSITION_DAYS * Day])
      pos == Del(st.position_tracking, asset)
  IN [st EXCEPT !.sold_positions = sold, !.position_tracking = pos,
                !.saved = Snapshot(pos, sold, st.price_history),
                !.partial_sold = @ \ {asset}, !.too_small = @ \ {asset}]

\* PartialSell that does not add the amount to total_sold
PartialSellForgets(asset, amount, st) ==
  [st EXCEPT !.saved = Snapshot(st.position_tracking, st.sold_positions, st.price_history),
             !.partial_sold = @ \cup {asset}]

\* pos['total_sold'] = pos.get('total_sold', 0.0) + amount (a partial sell)
PartialSell(asset, amount, st) ==
  LET pos == [st.position_tracking EXCEPT ![asset].total_sold = @ + amount]
  IN [st EXCEPT !.position_tracking = pos,
                !.saved = Snapshot(pos, st.sold_positions, st.price_history),
                !.partial_sold = @ \cup {asset}]

\* SellUpdate that closes the Position whatever is_full_exit says
SellUpdateAlwaysExit(asset, amount, pd, is_full_exit, net_proceeds, st) ==
  LET credited == [st EXCEPT !.balance = @ + net_proceeds]
  IN IF asset \in DOMAIN st.position_tracking
     THEN FullExit(asset, pd, amount, credited)
     ELSE credited

\* the 'Update tracking' block of a SELL, lines 386-399
SellUpdate(asset, amount, pd, is_full_exit, net_proceeds, st) ==
  LET credited == [st EXCEPT !.balance = @ + net_proceeds]
  IN IF asset \in DOMAIN st.position_tracking
     THEN IF is_full_exit
          THEN FullExit(asset, pd, amount, credited)
          ELSE PartialSell(asset, amount, credited)
     ELSE credited

\* BuyUpdate that tracks the Position and leaves the budget as it was
BuyUpdateNoDebit(asset, amount, pd, total_cost, st) ==
  LET pos == Put(st.position_tracking, asset, NewPosition(pd, amount))
  IN [st EXCEPT !.position_tracking = pos,
                !.saved = Snapshot(pos, st.sold_positions, st.price_history),
                !.partial_sold = @ \ {asset}, !.too_small = @ \ {asset}]

\* the 'Update tracking' block of a BUY, lines 454-462 and 473-483
BuyUpdate(asset, amount, pd, total_cost, st) ==
  LET pos == Put(st.position_tracking, asset, NewPosition(pd, amount))
  IN [st EXCEPT !.balance = @ - total_cost,
                !.position_tracking = pos,
                !.saved = Snapshot(pos, st.sold_positions, st.price_history),
                !.partial_sold = @ \ {asset}, !.too_small = @ \ {asset}]

\* execute_trade(action, asset, amount, price_data, is_full_exit).  order_ok is
\* the venue's answer to place_order when one is submitted.  In live mode a
\* SELL reaches line 405, self.api.get_min_order_size(product_id): CoinbaseAPI
\* defines no such method, so the call raises AttributeError before any order
\* is submitted or any state is changed.
ExecuteTrade(action, asset, amount, pd, is_full_exit, st, script, order_ok) ==
  LET v == ConvertToEur(amount * pd.price, pd.currency, st.ctx, script)
      value_eur == v.value * FeeDen
      fee == v.value * config.taker_fee_rate
      s0 == [st EXCEPT !.ctx = v.ctx]
  IN IF action = "SELL"
     THEN LET net_proceeds == value_eur - fee
              s1 == IF asset \in DOMAIN st.position_tracking
                    THEN [s0 EXCEPT !.ctx =
                            ConvertToEur(st.position_tracking[asset].entry_price,
                                         st.position_tracking[asset].entry_currency,
                                         v.ctx, script).ctx]
                    ELSE s0
          IN IF dry_run
             THEN [outcome |-> "dry_run", delta |-> net_proceeds, orders |-> 0,
                   st |-> SellUpdate(asset, amount, pd, is_full_exit, net_proceeds, s1)]
             ELSE [outcome |-> "AttributeError", delta |-> 0, orders |-> 0,
                   st |-> [s1 EXCEPT !.too_small = IF amount < BaseMinSize
                                                   THEN @ \cup {asset} ELSE @]]
     ELSE LET total_cost == value_eur + fee
          IN IF dry_run
             THEN [outcome |-> "dry_run", delta |-> 0 - total_cost, orders |-> 0,
                   st |-> BuyUpdate(asset, amount, pd, total_cost, s0)]
             ELSE IF order_ok
                  THEN [outcome |-> "success", delta |-> 0 - total_cost, orders |-> 1,
                        st |-> [BuyUpdate(asset, amount, pd, total_cost, s0)
                                  EXCEPT !.accounts[asset] = @ + amount]]
                  ELSE [outcome |-> "failed", delta |-> 0, orders |-> 1, st |-> s0]

\* ---- PriceHistoryStore ---------------------------------------------------------------
\* cleanup_price_history: keep the entries newer than the cutoff, drop empty assets
CleanupPriceHistory(hist) ==
  LET cutoff == now - PRICE_HISTORY_DAYS * Day
      kept(a) == SelectSeq(hist[a], LAMBDA entry : entry.timestamp > cutoff)
  IN [a \in {b \in DOMAIN hist : kept(b) # <<>>} |-> kept(a)]

\* track_price_history, before its save
TrackPriceHistory(hist, asset, pd) ==
  LET entry == [price |-> pd.price, currency |-> pd.currency, timestamp |-> now]
      old == IF asset \in DOMAIN hist THEN hist[asset] ELSE <<>>
  IN CleanupPriceHistory(Put(hist, asset, Append(old, entry)))

\* cleanup_sold_positions
CleanupSoldPositions(sold) ==
  [a \in {b \in DOMAIN sold : ~(sold[b].expires_at < now)} |-> sold[a]]

\* get_7day_high: the loop of lines 264-267 from entry i on
RECURSIVE MaxPriceEur(_, _, _, _, _)
MaxPriceEur(history, i, max_price_eur, ctx, script) ==
  IF i > Len(history)
  THEN [value |-> max_price_eur, ctx |-> ctx]
  ELSE LET c == ConvertToEur(history[i].price, history[i].currency, ctx, script)
       IN MaxPriceEur(history, i + 1,
                      IF c.value > max_price_eur THEN c.value ELSE max_price_eur,
                      c.ctx, script)

\* get_7day_high; value 0 stands for None
Get7DayHigh(hist, asset, ctx, script) ==
  IF asset \notin DOMAIN hist \/ hist[asset] = <<>>
  THEN [value |-> 0, ctx |-> ctx]
  ELSE MaxPriceEur(hist[asset], 1, 0, ctx, script)

\* can_afford_buy that compares the new balance with zero
CanAffordBuyNoFloor(amount_eur, balance) ==
  LET fee == amount_eur * AmountScale * RateDen * config.taker_fee_rate
      total_cost == amount_eur * MoneyScale + fee
      new_balance == balance - total_cost
  IN new_balance >= 0

\* can_afford_buy, in money units
CanAffordBuy(amount_eur, balance) ==
  LET fee == amount_eur * AmountScale * RateDen * config.taker_fee_rate
      total_cost == amount_eur * MoneyScale + fee
      new_balance == balance - total_cost
  IN new_balance >= config.minimum_balance_eur * MoneyScale

\* ---- the exchange client: api_request, get_price ------------------------------------------
\* The client's clock counts ticks of 1/TicksPerSecond second.
TicksPerSecond == 10
MAX_REQUESTS_PER_SECOND == 10
REQUEST_INTERVAL == TicksPerSecond \div MAX_REQUESTS_PER_SECOND
\* a retry bound one above MAX_RETRIES
MoreRetries == 3 + 1
MAX_RETRIES == 3
INITIAL_RETRY_DELAY == 1 * TicksPerSecond
MAX_RETRY_DELAY == 30 * TicksPerSecond
TOKEN_SECONDS == 120

\* how long the venue takes to answer a request, the same for the requests of
\* one call
Latencies == 0..MaxLatency

\* the calls of api_request this repository makes: get_accounts, place_order,
\* get_product
ApiCalls ==
  { [method |-> "GET", path |-> "/api/v3/brokerage/accounts", has_data |-> FALSE],
    [method |-> "POST", path |-> "/api/v3/brokerage/orders", has_data |-> TRUE],
    [method |-> "GET", path |-> "/api/v3/brokerage/market/products/BTC-EUR",
     has_data |-> FALSE] }

\* what urlopen does in api_request: a response, an HTTPError with a 4xx or a
\* 5xx code, a URLError, or any other exception raised inside the try block
ApiResponses == {"ok", "4xx", "5xx", "URLError", "other"}

\* and in get_price: a ticker with a positive price, or one without
PriceResponses == {"price", "no_price", "4xx", "5xx", "URLError", "other"}

\* the preference lists get_price is called with: the default, and ['EUR']
PreferredQuotes == {<<"USDC", "EUR", "USDT">>, <<"EUR">>}

\* the calls of get_price this repository makes: an asset with the default
\* list, and get_eur_usd_rate's get_price('USDC', preferred_quotes=['EUR'])
PriceCalls ==
  { [asset |-> IF quotes = <<"EUR">> THEN "USDC" ELSE "BTC", quotes |-> quotes] :
      quotes \in PreferredQuotes }

NoToken ==
  [uri |-> <<"NONE", "NONE">>, nbf |-> 0, exp |-> 0, minted_at |-> 0, nonce |-> 0]

\* int(time.time()), in ticks
IntTime(t) == (t \div TicksPerSecond) * TicksPerSecond

\* create_jwt(request_method, request_path) at time t; nonce stands for the
\* fresh secrets.token_hex(16)
CreateJwt(request_method, request_path, t, nonce) ==
  [uri |-> <<request_method, request_path>>,
   nbf |-> IntTime(t),
   exp |-> IntTime(t) + TOKEN_SECONDS * TicksPerSecond,
   minted_at |-> t, nonce |-> nonce]

\* a token made for the first attempt of a call and kept for its retries
MintOncePerCall(previous, request_method, request_path, t, nonce) ==
  IF previous = NoToken THEN CreateJwt(request_method, request_path, t, nonce)
  ELSE previous

\* line 112: the token of one attempt; previous is the token of the attempt before
MintForAttempt(previous, request_method, request_path, t, nonce) ==
  CreateJwt(request_method, request_path, t, nonce)

\* _rate_limit called at time t: the time at which it returns
RateLimit(t, last) ==
  LET elapsed == t - last
  IN IF elapsed < REQUEST_INTERVAL THEN t + (REQUEST_INTERVAL - elapsed) ELSE t

\* a retry delay after one more failure
NextDelay(retry_delay) ==
  IF retry_delay * 2 < MAX_RETRY_DELAY THEN retry_delay * 2 ELSE MAX_RETRY_DELAY

\* ---- product metadata and precision: get_product, round_to_precision ----------------
\* The amounts round_to_precision gets are counted in 1/Nano coin, so that nine
\* decimals of an amount are exact.
Nano == 1000000000

\* 0.123456789, 0.7 and 1.5 coins
Amounts == {123456789, 700000000, 1500000000}
Sides == {"SELL", "BUY"}
ProductIds == {"BTC-EUR", "PEPE-EUR"}

\* A base_increment is the string the venue declares, character by character.
\* The venue declares '0.00000001', '0.01', '0.10', '1', and for some pairs an
\* increment that is not a power of ten: '0.5', '0.25'.
Increments ==
  { <<"0", ".", "0", "0", "0", "0", "0", "0", "0", "1">>,
    <<"0", ".", "0", "1">>,
    <<"0", ".", "1", "0">>,
    <<"1">>,
    <<"0", ".", "5">>,
    <<"0", ".", "2", "5">> }

\* the default of product.get('base_increment', '0.00000001')
DefaultIncrement == <<"0", ".", "0", "0", "0", "0", "0", "0", "0", "1">>

\* None, and the empty JSON object; a document without base_increment has <<>>
NoProduct == [product_id |-> "None", base_increment |-> <<>>]
EmptyDocument == [product_id |-> "{}", base_increment |-> <<>>]

\* what the venue answers a product request with: the pair's document with one
\* of the increments or without the field, or an empty object
ProductDocuments(product_id) ==
  {[product_id |-> product_id, base_increment |-> inc] : inc \in Increments \cup {<<>>}}
  \cup {EmptyDocument}

\* Python's truth value of what api_request returned
Truthy(product) == product \notin {NoProduct, EmptyDocument}

ProductPath(product_id) ==
  IF product_id = "BTC-EUR" THEN "/api/v3/brokerage/market/products/BTC-EUR"
  ELSE "/api/v3/brokerage/market/products/PEPE-EUR"

\* a cache that stores whatever api_request returned, None included
CachedAlways(cache, product_id, fetched) == Put(cache, product_id, fetched)

\* get_product, lines 297-300: the cache after the fetch
Cached(cache, product_id, fetched) ==
  IF Truthy(fetched) THEN Put(cache, product_id, fetched) ELSE cache

\* str.rstrip('0')
RECURSIVE RStripZeros(_)
RStripZeros(s) ==
  IF s # <<>> /\ s[Len(s)] = "0" THEN RStripZeros(SubSeq(s, 1, Len(s) - 1)) ELSE s

\* base_increment.split('.')[1], for a string with a '.'
AfterDot(s) ==
  LET dot == CHOOSE i \in 1..Len(s) : s[i] = "." /\ \A j \in 1..(i - 1) : s[j] # "."
      rest == SubSeq(s, dot + 1, Len(s))
      stops == {i \in 1..Len(rest) : rest[i] = "."}
  IN IF stops = {} THEN rest
     ELSE SubSeq(rest, 1, (CHOOSE i \in stops : \A j \in stops : i <= j) - 1)

\* lines 329-332: the number of decimals of a base_increment
Decimals(base_increment) ==
  IF \E i \in 1..Len(base_increment) : base_increment[i] = "."
  THEN Len(RStripZeros(AfterDot(base_increment)))
  ELSE 0

\* math.floor(amount * 10 ** decimals) / 10 ** decimals
FloorTo(amount, decimals) ==
  LET grain == Nano \div (10 ^ decimals)
  IN (amount \div grain) * grain

\* round(amount, decimals): to the nearest, a tie to the even neighbour
RoundTo(amount, decimals) ==
  LET grain == Nano \div (10 ^ decimals)
      q == amount \div grain
      r == amount % grain
  IN IF 2 * r > grain \/ (2 * r = grain /\ q % 2 = 1) THEN (q + 1) * grain ELSE q * grain

\* round_to_precision, lines 315-343, with what get_product returned
RoundToPrecision(amount, product, side) ==
  IF ~Truthy(product)
  THEN IF side = "SELL" THEN FloorTo(amount, 8) ELSE RoundTo(amount, 8)
  ELSE LET base_increment == IF product.base_increment = <<>> THEN DefaultIncrement
                             ELSE product.base_increment
           decimals == Decimals(base_increment)
       IN IF side = "SELL" THEN FloorTo(amount, decimals) ELSE RoundTo(amount, decimals)

\* no rounding was asked for: get_product was called on its own
NoRound == [amount |-> 0, side |-> "NONE"]

NoCall ==
  [kind |-> "none", method |-> "NONE", path |-> "NONE", has_data |-> FALSE,
   asset |-> "NONE", quotes |-> <<>>, quote |-> 0, attempt |-> 0, retry_delay |-> 0, latency |-> 0,
   token |-> NoToken, n |-> 0, status |-> "none", tried |-> <<>>,
   convert |-> "NONE", product_id |-> "NONE", round |-> NoRound, minted |-> 0]

NoResult ==
  [kind |-> "none", value |-> "none", attempts |-> 0, status |-> "none",
   currency |-> "NONE", pair |-> <<"NONE", "NONE">>, quotes |-> <<>>, tried |-> <<>>,
   rate |-> 0, source |-> "none",
   product_id |-> "NONE", product |-> NoProduct, known |-> NoProduct, requests |-> 0,
   amount |-> 0, side |-> "NONE", rounded |-> 0]

\* history of one get_price call: per pair requested, in the order of the
\* requests, how many requests it got and whether one of them found a price
Tried(tried, quote, found) ==
  IF tried # <<>> /\ tried[Len(tried)].quote = quote
  THEN [tried EXCEPT ![Len(tried)].attempts = @ + 1, ![Len(tried)].found = found]
  ELSE Append(tried, [quote |-> quote, attempts |-> 1, found |-> found])

\* the for loop of line 184 that takes every second quote of the list
QuoteAfterSkipping(quote) == quote + 2

\* the for loop of line 184: the position of the quote tried after this one
QuoteAfter(quote) == quote + 1

NoWire ==
  [time |-> -1, method |-> "NONE", path |-> "NONE", auth |-> FALSE, token |-> NoToken,
   prev_time |-> -1, n |-> 0, after |-> "none", reused |-> FALSE]

\* CoinbaseAPI.__init__, and no call running
ClientInit ==
  /\ clock = TicksPerSecond
  /\ last_request_time = 0
  /\ call = NoCall
  /\ result = NoResult
  /\ wire = NoWire
  /\ tokens_sent = {}
  /\ minted = 0
  /\ calls = 0
  /\ refreshes = <<>>
  /\ product_cache = EmptyMap
  /\ served = EmptyMap

\* what get_product, or round_to_precision after it, hands back: the product,
\* how many requests the call dispatched, and the rounded amount
ProductReturned(c, product, returned, requests) ==
  [returned EXCEPT
     !.kind = IF c.round = NoRound THEN "get_product" ELSE "round_to_precision",
     !.value = IF product = NoProduct THEN "None" ELSE "ok",
     !.product_id = c.product_id, !.product = product,
     !.known = IF c.product_id \in DOMAIN served THEN served[c.product_id] ELSE NoProduct,
     !.requests = requests,
     !.amount = c.round.amount, !.side = c.round.side,
     !.rounded = IF c.round = NoRound THEN 0
                 ELSE RoundToPrecision(c.round.amount, product, c.round.side)]

\* the history of the metadata get_product has returned
Serve(product_id, product) ==
  IF product # NoProduct /\ product_id \notin DOMAIN served
  THEN Put(served, product_id, product)
  ELSE served

\* get_product(product_id), lines 292-296: the cached document, or the start
\* of the api_request that fetches it
GetProduct(product_id, round, latency) ==
  LET c == [NoCall EXCEPT !.kind = "api_request", !.method = "GET",
                          !.path = ProductPath(product_id), !.has_data = FALSE,
                          !.retry_delay = INITIAL_RETRY_DELAY, !.latency = latency,
                          !.product_id = product_id, !.round = round,
                          !.minted = minted]
  IN IF product_id \in DOMAIN product_cache
     THEN /\ call' = NoCall
          /\ result' = ProductReturned(c, product_cache[product_id], NoResult, 0)
          /\ served' = Serve(product_id, product_cache[product_id])
     ELSE /\ call' = c
          /\ result' = NoResult
          /\ served' = served

\* get_product(product_id) is called
GetProductBegin ==
  /\ call.kind = "none"
  /\ calls < MaxCalls
  /\ calls' = calls + 1
  /\ \E product_id \in ProductIds, latency \in Latencies :
       GetProduct(product_id, NoRound, latency)
  /\ UNCHANGED <<clock, last_request_time, wire, tokens_sent, minted, refreshes,
                 product_cache>>
  /\ UNCHANGED monitorVars

\* round_to_precision(amount, product_id, side) is called: line 314
RoundToPrecisionBegin ==
  /\ call.kind = "none"
  /\ calls < MaxCalls
  /\ calls' = calls + 1
  /\ \E amount \in Amounts, product_id \in ProductIds, side \in Sides,
        latency \in Latencies :
       GetProduct(product_id, [amount |-> amount, side |-> side], latency)
  /\ UNCHANGED <<clock, last_request_time, wire, tokens_sent, minted, refreshes,
                 product_cache>>
  /\ UNCHANGED monitorVars

\* api_request(method, path, data) is called
ApiRequestBegin ==
  /\ call.kind = "none"
  /\ calls < MaxCalls
  /\ calls' = calls + 1
  /\ \E c \in ApiCalls, latency \in Latencies :
       call' = [NoCall EXCEPT !.kind = "api_request", !.method = c.method,
                              !.path = c.path, !.has_data = c.has_data,
                              !.retry_delay = INITIAL_RETRY_DELAY,
                              !.latency = latency]
  /\ result' = NoResult
  /\ UNCHANGED <<clock, last_request_time, wire, tokens_sent, minted, refreshes,
                 product_cache, served>>
  /\ UNCHANGED monitorVars

\* api_request, lines 109-164: one iteration of the retry loop
ApiAttempt ==
  /\ call.kind = "api_request"
  /\ \E response \in ApiResponses :
       LET t == RateLimit(clock, last_request_time)
           token == MintForAttempt(call.token, call.method, call.path, t, minted + 1)
           answered == t + call.latency
           retry == /\ response \in {"5xx", "URLError"}
                    /\ call.attempt < MAX_RETRIES - 1
       IN /\ last_request_time' = t
          /\ wire' = [time |-> t,
                      method |-> IF call.has_data THEN call.method ELSE "GET",
                      path |-> call.path, auth |-> TRUE, token |-> token,
                      prev_time |-> wire.time, n |-> call.n + 1,
                      after |-> call.status, reused |-> token.nonce \in tokens_sent]
          /\ tokens_sent' = tokens_sent \cup {token.nonce}
          /\ minted' = IF token.nonce > minted THEN token.nonce ELSE minted
          /\ IF retry
             THEN /\ clock' = answered + call.retry_delay
                  /\ call' = [call EXCEPT !.attempt = @ + 1,
                                          !.retry_delay = NextDelay(@),
                                          !.token = token, !.n = @ + 1,
                                          !.status = response]
                  /\ result' = result
                  /\ UNCHANGED <<product_cache, served>>
             ELSE /\ clock' = answered
                  /\ call' = NoCall
                  /\ LET returned == [NoResult EXCEPT
                                        !.kind = "api_request",
                                        !.value = IF response = "ok" THEN "ok" ELSE "None",
                                        !.attempts = call.n + 1, !.status = response]
                     IN IF call.product_id = "NONE"
                        THEN /\ result' = returned
                             /\ UNCHANGED <<product_cache, served>>
                        ELSE \* api_request returns to get_product, line 296
                             \E fetched \in IF response = "ok"
                                            THEN ProductDocuments(call.product_id)
                                            ELSE {NoProduct} :
                               LET product == IF Truthy(fetched) THEN fetched ELSE NoProduct
                               IN /\ product_cache' =
                                       Cached(product_cache, call.product_id, fetched)
                                  /\ result' = ProductReturned(call, product, returned,
                                                                minted' - call.minted)
                                  /\ served' = Serve(call.product_id, product)
  /\ UNCHANGED <<calls, refreshes>>
  /\ UNCHANGED monitorVars

\* the currencies convert_to_eur recognizes
Currencies == {"EUR", "USD", "USDC", "USDT"}

\* how long after the call before it a conversion is asked for
Waits == {0, EUR_USD_RATE_CACHE_SECONDS * TicksPerSecond}

\* convert_to_eur, line 386: the amount is returned as it is
SameCurrency == [raised |-> FALSE, rate |-> RateDen, source |-> "same", cache |-> FALSE]

\* get_eur_usd_rate, lines 353-357: the cached rate is returned
CachedRate(rate) == [raised |-> FALSE, rate |-> rate, source |-> "cached", cache |-> FALSE]

\* get_eur_usd_rate that lets a failed fetch end the conversion
RefreshedRateNoFallback(price_data, fresh) ==
  IF price_data.value = "ok" /\ price_data.currency = "EUR"
  THEN [raised |-> FALSE, rate |-> fresh, source |-> "fresh", cache |-> TRUE]
  ELSE [raised |-> TRUE, rate |-> 0, source |-> "none", cache |-> FALSE]

\* get_eur_usd_rate, lines 362-372, with what get_price returned: the fresh
\* rate, which is cached, or the fallback, which is not
RefreshedRate(price_data, fresh) ==
  IF price_data.value = "ok" /\ price_data.currency = "EUR"
  THEN [raised |-> FALSE, rate |-> fresh, source |-> "fresh", cache |-> TRUE]
  ELSE [raised |-> FALSE, rate |-> USD_TO_EUR_FALLBACK, source |-> "fallback",
        cache |-> FALSE]

\* what convert_to_eur returns: amount * rate / RateDen, or an exception
Converted(currency, r, price_data) ==
  [price_data EXCEPT !.kind = "convert_to_eur",
                     !.value = IF r.raised THEN "raised" ELSE "ok",
                     !.currency = currency, !.rate = r.rate, !.source = r.source]

\* get_price(asset, preferred_quotes) is called
GetPriceBegin ==
  /\ call.kind = "none"
  /\ calls < MaxCalls
  /\ calls' = calls + 1
  /\ \E c \in PriceCalls, latency \in Latencies :
       call' = [NoCall EXCEPT !.kind = "get_price", !.method = "GET",
                              !.asset = c.asset,
                              !.quotes = c.quotes, !.quote = 1,
                              !.path = c.quotes[1],
                              !.retry_delay = INITIAL_RETRY_DELAY,
                              !.latency = latency]
  /\ result' = NoResult
  /\ UNCHANGED <<clock, last_request_time, wire, tokens_sent, minted, refreshes,
                 product_cache, served>>
  /\ UNCHANGED monitorVars

\* get_price, lines 190-221: one iteration of the retry loop of one pair.  The
\* response "price" is a ticker whose price (or, without one, best_ask or
\* best_bid) is a positive number; "no_price" is a ticker without one.
GetPriceAttempt ==
  /\ call.kind = "get_price"
  /\ \E response \in PriceResponses :
       LET answered == clock + call.latency
           more == call.attempt < MAX_RETRIES - 1
           tried == Tried(call.tried, call.path, response = "price")
           again == [call EXCEPT !.attempt = @ + 1, !.n = @ + 1, !.status = response,
                                 !.tried = tried]
           next_quote ==
             IF QuoteAfter(call.quote) <= Len(call.quotes)
             THEN [call |-> [call EXCEPT !.quote = QuoteAfter(@),
                                         !.path = call.quotes[QuoteAfter(call.quote)],
                                         !.attempt = 0,
                                         !.retry_delay = INITIAL_RETRY_DELAY,
                                         !.n = 0, !.status = "none",
                                         !.tried = tried],
                   result |-> result]
             ELSE [call |-> NoCall,
                   result |-> [NoResult EXCEPT
                                 !.kind = "get_price", !.value = "None",
                                 !.attempts = call.n + 1, !.status = response,
                                 !.quotes = call.quotes, !.tried = tried]]
           step ==
             IF response = "price"
             THEN [clock |-> answered, call |-> NoCall,
                   result |-> [NoResult EXCEPT
                                 !.kind = "get_price", !.value = "ok",
                                 !.attempts = call.n + 1, !.status = response,
                                 !.currency = call.path,
                                 !.pair = <<call.asset, call.path>>,
                                 !.quotes = call.quotes, !.tried = tried]]
             ELSE IF response = "no_price" /\ more
             THEN [clock |-> answered, call |-> again, result |-> result]
             ELSE IF response \in {"4xx", "5xx", "URLError"} /\ more
             THEN [clock |-> answered + call.retry_delay,
                   call |-> [again EXCEPT !.retry_delay = NextDelay(@)],
                   result |-> result]
             ELSE [clock |-> answered, call |-> next_quote.call,
                   result |-> next_quote.result]
       IN /\ wire' = [time |-> clock, method |-> "GET", path |-> call.path,
                      auth |-> FALSE, token |-> NoToken, prev_time |-> wire.time,
                      n |-> call.n + 1, after |-> call.status, reused |-> FALSE]
          /\ clock' = step.clock
          /\ call' = step.call
          /\ IF step.call = NoCall /\ call.convert # "NONE"
             THEN \* get_price returns to get_eur_usd_rate, line 361
                  \E fresh \in FreshRates :
                    LET r == RefreshedRate(step.result, fresh)
                    IN /\ result' = Converted(call.convert, r, step.result)
                       /\ eur_usd_rate' = IF r.cache THEN r.rate ELSE eur_usd_rate
                       /\ eur_usd_rate_timestamp' =
                            IF r.cache THEN step.clock ELSE eur_usd_rate_timestamp
             ELSE /\ result' = step.result
                  /\ UNCHANGED rateVars
  /\ UNCHANGED <<last_request_time, tokens_sent, minted, calls, refreshes,
                 product_cache, served>>
  /\ UNCHANGED tradingVars

\* convert_to_eur(amount, currency) is called, some time after the call before
\* it: lines 385-392 and get_eur_usd_rate up to the get_price of line 361.  In
\* this part of the model time.time() is clock, and the timestamp of the cached
\* rate is in ticks.
ConvertToEurBegin ==
  /\ call.kind = "none"
  /\ calls < MaxCalls
  /\ calls' = calls + 1
  /\ \E currency \in Currencies, wait \in Waits, latency \in Latencies :
       LET t == clock + wait
           cached == /\ eur_usd_rate # 0
                     /\ t - eur_usd_rate_timestamp
                          < EUR_USD_RATE_CACHE_SECONDS * TicksPerSecond
       IN /\ clock' = t
          /\ IF currency = "EUR"
             THEN /\ call' = NoCall
                  /\ result' = Converted(currency, SameCurrency, NoResult)
                  /\ refreshes' = refreshes
             ELSE IF cached
             THEN /\ call' = NoCall
                  /\ result' = Converted(currency, CachedRate(eur_usd_rate), NoResult)
                  /\ refreshes' = refreshes
             ELSE /\ call' = [NoCall EXCEPT !.kind = "get_price", !.method = "GET",
                                             !.asset = "USDC", !.quotes = <<"EUR">>,
                                             !.quote = 1, !.path = "EUR",
                                             !.retry_delay = INITIAL_RETRY_DELAY,
                                             !.latency = latency,
                                             !.convert = currency]
                  /\ result' = NoResult
                  /\ refreshes' = Append(refreshes, t)
  /\ UNCHANGED <<last_request_time, wire, tokens_sent, minted, product_cache, served>>
  /\ UNCHANGED monitorVars

\* ---- the monitoring process ---------------------------------------------------------------
NoCheck ==
  [asset |-> "NONE", amount |-> 0, price |-> NoPrice, tracked |-> FALSE,
   position_amount |-> 0, total_sold |-> 0, had_partial |-> FALSE,
   entry_price_eur |-> 0, current_price_eur |-> 0, trigger |-> NoTrigger,
   price_ok |-> TRUE, flagged |-> FALSE, was_too_small |-> FALSE,
   entry_price |-> 0, entry_currency |-> "NONE"]

NoExec ==
  [action |-> "NONE", asset |-> "NONE", amount |-> 0, price |-> NoPrice,
   is_full_exit |-> FALSE, remove_from_sold |-> FALSE, outcome |-> "none", delta |-> 0,
   orders |-> 0]

\* the budget and the maps as a decision finds them
NoBefore ==
  [balance |-> 0, position_tracking |-> EmptyMap, sold_positions |-> EmptyMap]

Before ==
  [balance |-> current_eur_balance, position_tracking |-> position_tracking,
   sold_positions |-> sold_positions]

\* the maps and the ledger a handler works on
State ==
  [position_tracking |-> position_tracking, sold_positions |-> sold_positions,
   price_history |-> price_history, saved |-> saved, balance |-> current_eur_balance,
   accounts |-> accounts, partial_sold |-> partial_sold, too_small |-> too_small,
   ctx |-> Context(eur_usd_rate, eur_usd_rate_timestamp)]

Commit(st) ==
  /\ position_tracking' = st.position_tracking
  /\ sold_positions' = st.sold_positions
  /\ price_history' = st.price_history
  /\ saved' = st.saved
  /\ current_eur_balance' = st.balance
  /\ accounts' = st.accounts
  /\ partial_sold' = st.partial_sold
  /\ too_small' = st.too_small
  /\ eur_usd_rate' = st.ctx.rate
  /\ eur_usd_rate_timestamp' = st.ctx.ts

\* get_holdings; a failed accounts request makes get_accounts return []
GetHoldings(request_ok) ==
  IF request_ok
  THEN [a \in {b \in Assets : accounts[b] > 0 /\ b \in config.tracked_assets} |-> accounts[a]]
  ELSE EmptyMap

\* The answers a venue request can get: it succeeds, or (while the model's
\* bound on failed requests allows) it fails.
Outcomes(requested) == IF requested /\ faults < MaxFaults THEN BOOLEAN ELSE {TRUE}
Count(ok) == faults' = IF ok THEN faults ELSE faults + 1

\* get_price that answers with a quote although every ticker request failed
GetPriceStale(asset, price_ok) == market[asset]

\* api.get_price(asset): the quote of the first preferred pair that answers
GetPrice(asset, price_ok) == IF price_ok THEN market[asset] ELSE NoPrice

\* where check_buy_triggers goes after the dip loop, and monitor_cycle after it
EnterReentry(sold) ==
  IF KeysInOrder(sold) # <<>>
  THEN [pc |-> "reentry", todo |-> KeysInOrder(sold)]
  ELSE [pc |-> "buys", todo |-> <<>>]

\* self.config['triggers'].get('buy_assets', []), lines 279 and 511
BuyAssets ==
  IF "buy_assets" \in DOMAIN config.triggers THEN config.triggers.buy_assets ELSE <<>>

\* self.config['triggers'][key] raises KeyError
Missing(key) == key \notin DOMAIN config.triggers

EnterDip(sold) ==
  IF BuyAssets # <<>>
  THEN [pc |-> "dip", todo |-> BuyAssets]
  ELSE EnterReentry(sold)

EnterHoldings(h) == [pc |-> "holdings", todo |-> KeysInOrder(h)]

EnterHistory(h) ==
  IF BuyAssets # <<>>
  THEN [pc |-> "history", todo |-> BuyAssets]
  ELSE EnterHoldings(h)

\* a halt check that never halts
BudgetNeverDepleted(balance) == FALSE

\* the safety check of line 501
BudgetDepleted(balance) == balance < config.minimum_balance_eur * MoneyScale

\* monitor_cycle, lines 495-507: the halt check and get_holdings
MonitorCycleBegin ==
  /\ pc = "idle"
  /\ cycles < MaxCycles
  /\ IF BudgetDepleted(current_eur_balance)
     THEN /\ pc' = "halted"
          /\ UNCHANGED <<holdings, todo, cycles, baselined, bought, last_check, last_exec, market,
                         faults, before>>
     ELSE \E request_ok \in Outcomes(TRUE), m \in Markets :
            LET h == GetHoldings(request_ok)
            IN /\ holdings' = h
               /\ Count(request_ok)
               /\ market' = m
               /\ pc' = EnterHistory(h).pc
               /\ todo' = EnterHistory(h).todo
               /\ cycles' = cycles + 1
               /\ baselined' = {}
               /\ bought' = <<>>
               /\ last_check' = NoCheck
               /\ last_exec' = NoExec
               /\ before' = NoBefore
  /\ UNCHANGED <<config, document, dry_run, last_high,
                 position_tracking, sold_positions, price_history, saved,
                 current_eur_balance, eur_usd_rate, eur_usd_rate_timestamp, accounts, now,
                 buy_holdings, buy_opportunities, partial_sold, too_small, restarts>>
  /\ UNCHANGED clientVars

\* monitor_cycle, lines 510-514: one iteration of the price-history loop
TrackPrice ==
  /\ pc = "history"
  /\ \E price_ok \in Outcomes(TRUE) :
       LET asset == Head(todo)
           pd == GetPrice(asset, price_ok)
           hist == IF pd = NoPrice THEN price_history
                   ELSE TrackPriceHistory(price_history, asset, pd)
           nxt == IF Tail(todo) = <<>> THEN EnterHoldings(holdings)
                  ELSE [pc |-> "history", todo |-> Tail(todo)]
       IN /\ price_history' = hist
          /\ saved' = IF pd = NoPrice THEN saved
                      ELSE Snapshot(position_tracking, sold_positions, hist)
          /\ pc' = nxt.pc
          /\ todo' = nxt.todo
          /\ Count(price_ok)
  /\ UNCHANGED <<config, document, dry_run, last_high, position_tracking, sold_positions,
                 current_eur_balance,
                 eur_usd_rate, eur_usd_rate_timestamp, accounts, market, now, holdings,
                 buy_holdings, buy_opportunities, last_check, last_exec, before,
                 partial_sold, too_small, baselined, bought, cycles, restarts>>
  /\ UNCHANGED clientVars

\* track_price_history is interrupted (Ctrl+C, a kill, a power loss) inside its
\* save_config, lines 62-63, after the file was opened for writing and before
\* the document is completely on stable storage: the process ends.
TrackPriceInterrupted ==
  /\ pc = "history"
  /\ market[Head(todo)] # NoPrice
  /\ price_history' = TrackPriceHistory(price_history, Head(todo), market[Head(todo)])
  /\ saved' = Truncated
  /\ pc' = "killed"
  /\ UNCHANGED <<config, document, dry_run, last_high, position_tracking, sold_positions,
                 current_eur_balance, eur_usd_rate, eur_usd_rate_timestamp, accounts,
                 market, now, holdings, buy_holdings, todo, buy_opportunities, last_check,
                 last_exec, before, partial_sold, too_small, baselined, bought, cycles,
                 restarts, faults>>
  /\ UNCHANGED clientVars

\* monitor_cycle, lines 517-540: one iteration of the holdings loop
EvaluateHolding ==
  /\ pc = "holdings"
  /\ todo # <<>>
  /\ LET asset == Head(todo)
         amount == holdings[asset]
         flagged == /\ asset \in DOMAIN position_tracking
                    /\ position_tracking[asset].too_small_to_sell
     IN \E price_ok \in Outcomes(~flagged), script \in FetchScripts :
          LET pd == GetPrice(asset, price_ok) IN
          Count(price_ok) /\
          IF flagged \/ pd = NoPrice
          THEN /\ last_check' = [NoCheck EXCEPT !.asset = asset, !.amount = amount,
                                                 !.price_ok = price_ok,
                                                 !.flagged = flagged,
                                                 !.was_too_small = asset \in too_small]
               /\ last_exec' = NoExec
               /\ before' = Before
               /\ todo' = Tail(todo)
               /\ UNCHANGED <<position_tracking, sold_positions, price_history, saved,
                              current_eur_balance, eur_usd_rate, eur_usd_rate_timestamp,
                              accounts, partial_sold, too_small, baselined, bought, pc>>
          ELSE LET value == ConvertToEur(amount * pd.price, pd.currency, State.ctx, script)
                   chk == CheckTriggers(asset, amount, pd,
                                        [State EXCEPT !.ctx = value.ctx], script)
                   trigger == chk.trigger
                   exe == IF trigger.action = "NONE"
                          THEN [outcome |-> "none", delta |-> 0, orders |-> 0,
                                st |-> chk.st]
                          ELSE ExecuteTrade(trigger.action, asset, trigger.amount,
                                            trigger.price, trigger.is_full_exit,
                                            chk.st, script, FALSE)
               IN /\ last_check' =
                       [asset |-> asset, amount |-> amount, price |-> pd,
                        tracked |-> chk.tracked,
                        position_amount |->
                          IF chk.tracked THEN position_tracking[asset].amount ELSE 0,
                        total_sold |->
                          IF chk.tracked THEN position_tracking[asset].total_sold ELSE 0,
                        had_partial |-> asset \in partial_sold,
                        entry_price_eur |-> chk.entry_price_eur,
                        current_price_eur |-> chk.current_price_eur,
                        trigger |-> trigger, price_ok |-> price_ok,
                        flagged |-> FALSE, was_too_small |-> asset \in too_small,
                        entry_price |->
                          IF chk.tracked THEN position_tracking[asset].entry_price ELSE 0,
                        entry_currency |->
                          IF chk.tracked THEN position_tracking[asset].entry_currency
                          ELSE "NONE"]
                  /\ last_exec' =
                       IF trigger.action = "NONE" THEN NoExec
                       ELSE [action |-> trigger.action, asset |-> asset,
                             amount |-> trigger.amount, price |-> trigger.price,
                             is_full_exit |-> trigger.is_full_exit,
                             remove_from_sold |-> FALSE,
                             outcome |-> exe.outcome, delta |-> exe.delta,
                             orders |-> exe.orders]
                  /\ before' = Before
                  /\ Commit(exe.st)
                  /\ baselined' = IF chk.tracked THEN baselined ELSE baselined \cup {asset}
                  /\ bought' = bought
                  /\ IF exe.outcome = "AttributeError"
                     THEN pc' = "crashed" /\ todo' = todo
                     ELSE pc' = pc /\ todo' = Tail(todo)
  /\ UNCHANGED <<config, document, dry_run, last_high, market, now, holdings, buy_holdings,
                 buy_opportunities,
                 cycles, restarts>>
  /\ UNCHANGED clientVars

\* check_buy_triggers, lines 273-279: the call begins with its own get_holdings
CheckBuyTriggersBegin ==
  /\ pc = "holdings"
  /\ todo = <<>>
  /\ \E request_ok \in Outcomes(TRUE) :
       /\ buy_holdings' = GetHoldings(request_ok)
       /\ Count(request_ok)
  /\ buy_opportunities' = <<>>
  /\ pc' = EnterDip(sold_positions).pc
  /\ todo' = EnterDip(sold_positions).todo
  /\ holdings' = EmptyMap
  /\ last_check' = NoCheck
  /\ last_exec' = NoExec
  /\ before' = NoBefore
  /\ UNCHANGED <<config, document, dry_run, last_high,
                 position_tracking, sold_positions, price_history, saved,
                 current_eur_balance, eur_usd_rate, eur_usd_rate_timestamp, accounts, market, now,
                 partial_sold, too_small, baselined, bought, cycles, restarts>>
  /\ UNCHANGED clientVars

NoHigh ==
  [asset |-> "NONE", value |-> 0, history |-> <<>>, price |-> NoPrice,
   triggered |-> FALSE, held |-> FALSE, current |-> 0, tracked |-> FALSE]

BuyTheDip(asset, pd) ==
  [action |-> "BUY", asset |-> asset, reason |-> "Buy-the-dip",
   amount_eur |-> config.triggers.buy_amount_eur, price |-> pd,
   remove_from_sold |-> FALSE]

ReEntry(asset, pd) ==
  [action |-> "BUY", asset |-> asset, reason |-> "Re-entry",
   amount_eur |-> config.triggers.buy_amount_eur, price |-> pd,
   remove_from_sold |-> TRUE]

\* check_buy_triggers, lines 280-311: one iteration of the buy-the-dip loop
CheckDip ==
  /\ pc = "dip"
  /\ LET asset == Head(todo)
         nxt == IF Tail(todo) = <<>> THEN EnterReentry(sold_positions)
                ELSE [pc |-> "dip", todo |-> Tail(todo)]
     IN /\ buy_holdings' = IF Tail(todo) = <<>> THEN EmptyMap ELSE buy_holdings
        /\ \E price_ok \in Outcomes(asset \notin DOMAIN buy_holdings),
              script \in FetchScripts :
             LET pd == GetPrice(asset, price_ok) IN
             Count(price_ok) /\
             IF asset \in DOMAIN buy_holdings \/ pd = NoPrice
             THEN /\ UNCHANGED <<buy_opportunities, eur_usd_rate, eur_usd_rate_timestamp>>
                  /\ last_high' = NoHigh
                  /\ pc' = nxt.pc
                  /\ todo' = nxt.todo
             ELSE LET high == Get7DayHigh(price_history, asset, State.ctx, script)
                      current == ConvertToEur(pd.price, pd.currency, high.ctx, script)
                      due == PctAtMost(current.value, high.value,
                                       0 - config.triggers.buy_dip_percent)
                      key_error ==
                        /\ high.value # 0
                        /\ \/ Missing("buy_dip_percent")
                           \/ due /\ Missing("buy_amount_eur")
                  IN /\ pc' = IF key_error THEN "key_error" ELSE nxt.pc
                     /\ todo' = IF key_error THEN todo ELSE nxt.todo
                     /\ last_high' =
                          [asset |-> asset, value |-> high.value,
                           history |-> IF asset \in DOMAIN price_history
                                       THEN price_history[asset] ELSE <<>>,
                           price |-> pd,
                           triggered |-> high.value # 0 /\ ~key_error /\ due,
                           held |-> accounts[asset] > 0,
                           current |-> current.value,
                           tracked |-> asset \in DOMAIN position_tracking]
                     /\ IF high.value = 0
                        THEN /\ UNCHANGED buy_opportunities
                             /\ eur_usd_rate' = high.ctx.rate
                             /\ eur_usd_rate_timestamp' = high.ctx.ts
                        ELSE /\ buy_opportunities' =
                                  IF ~key_error /\ due
                                  THEN Append(buy_opportunities, BuyTheDip(asset, pd))
                                  ELSE buy_opportunities
                             /\ eur_usd_rate' = current.ctx.rate
                             /\ eur_usd_rate_timestamp' = current.ctx.ts
  /\ UNCHANGED <<config, document, dry_run, position_tracking, sold_positions, price_history, saved,
                 current_eur_balance, accounts, market, now, holdings, last_check,
                 last_exec, before, partial_sold, too_small, baselined, bought, cycles, restarts>>
  /\ UNCHANGED clientVars

\* check_buy_triggers, lines 314-338: one iteration of the re-entry loop
CheckReentry ==
  /\ pc = "reentry"
  /\ LET asset == Head(todo)
         sold_pos == sold_positions[asset]
         nxt == IF Tail(todo) = <<>> THEN "buys" ELSE "reentry"
     IN /\ \E price_ok \in Outcomes(TRUE), script \in FetchScripts :
             LET pd == GetPrice(asset, price_ok) IN
             Count(price_ok) /\
             IF pd = NoPrice
             THEN /\ UNCHANGED <<buy_opportunities, eur_usd_rate, eur_usd_rate_timestamp>>
                  /\ pc' = nxt
                  /\ todo' = Tail(todo)
             ELSE LET sale == ConvertToEur(sold_pos.sale_price, sold_pos.sale_currency,
                                           State.ctx, script)
                      current == ConvertToEur(pd.price, pd.currency, sale.ctx, script)
                      due == /\ PctAtLeast(current.value, sale.value, 0 - REENTRY_DIP_MAX)
                             /\ PctAtMost(current.value, sale.value, 0 - REENTRY_DIP_MIN)
                      key_error == due /\ Missing("buy_amount_eur")
                  IN /\ pc' = IF key_error THEN "key_error" ELSE nxt
                     /\ todo' = IF key_error THEN todo ELSE Tail(todo)
                     /\ buy_opportunities' =
                          IF ~key_error /\ due
                          THEN Append(buy_opportunities, ReEntry(asset, pd))
                          ELSE buy_opportunities
                     /\ eur_usd_rate' = current.ctx.rate
                     /\ eur_usd_rate_timestamp' = current.ctx.ts
  /\ UNCHANGED <<config, document, dry_run, last_high,
                 position_tracking, sold_positions, price_history, saved,
                 current_eur_balance, accounts, market, now, holdings, buy_holdings, last_check,
                 last_exec, before, partial_sold, too_small, baselined, bought, cycles, restarts>>
  /\ UNCHANGED clientVars

\* the removal of lines 553-558, after execute_trade has returned
RemoveFromSold(trigger, st) ==
  IF trigger.remove_from_sold /\ trigger.asset \in DOMAIN st.sold_positions
  THEN LET sold == Del(st.sold_positions, trigger.asset)
       IN [st EXCEPT !.sold_positions = sold,
                     !.saved = Snapshot(st.position_tracking, sold, st.price_history)]
  ELSE st

\* monitor_cycle, lines 546-561: one iteration of the buy loop
ExecuteBuy ==
  /\ pc = "buys"
  /\ buy_opportunities # <<>>
  /\ LET trigger == Head(buy_opportunities)
     IN IF CanAffordBuy(trigger.amount_eur, current_eur_balance)
        THEN \E script \in FetchScripts, order_ok \in Outcomes(~dry_run) :
               LET amount_base == (trigger.amount_eur * AmountScale) \div trigger.price.price
                   exe == ExecuteTrade("BUY", trigger.asset, amount_base, trigger.price,
                                       TRUE, State, script, order_ok)
               IN /\ Commit(RemoveFromSold(trigger, exe.st))
                  /\ Count(order_ok)
                  /\ last_exec' =
                       [action |-> "BUY", asset |-> trigger.asset, amount |-> amount_base,
                        price |-> trigger.price, is_full_exit |-> TRUE,
                        remove_from_sold |-> trigger.remove_from_sold,
                        outcome |-> exe.outcome, delta |-> exe.delta,
                        orders |-> exe.orders]
                  /\ bought' = IF exe.outcome \in {"dry_run", "success"}
                               THEN Append(bought, trigger.asset) ELSE bought
        ELSE /\ bought' = bought
             /\ last_exec' =
                  [NoExec EXCEPT !.action = "BUY", !.asset = trigger.asset,
                                 !.price = trigger.price,
                                 !.remove_from_sold = trigger.remove_from_sold,
                                 !.outcome = "skipped"]
             /\ UNCHANGED <<position_tracking, sold_positions, price_history, saved,
                            current_eur_balance, eur_usd_rate, eur_usd_rate_timestamp,
                            accounts, partial_sold, too_small, faults>>
  /\ buy_opportunities' = Tail(buy_opportunities)
  /\ before' = Before
  /\ UNCHANGED <<config, document, dry_run, last_high,
                 market, now, pc, holdings, buy_holdings, todo, last_check,
                 baselined, cycles, restarts>>
  /\ UNCHANGED clientVars

\* monitor_cycle returns True (its locals are gone) and run sleeps until the
\* next cycle
CycleEnd ==
  /\ pc = "buys"
  /\ buy_opportunities = <<>>
  /\ pc' = "idle"
  /\ \E d \in Elapsed : now' = now + d
  /\ market' = [a \in Assets |-> NoPrice]
  /\ last_check' = NoCheck
  /\ last_exec' = NoExec
  /\ before' = NoBefore
  /\ last_high' = NoHigh
  /\ baselined' = {}
  /\ bought' = <<>>
  /\ UNCHANGED <<config, document, dry_run, position_tracking, sold_positions, price_history, saved,
                 current_eur_balance, eur_usd_rate, eur_usd_rate_timestamp, accounts,
                 holdings, buy_holdings, todo, buy_opportunities, partial_sold, too_small, cycles,
                 restarts, faults>>
  /\ UNCHANGED clientVars

\* The process has ended (interrupted while it sleeps, halted, crashed on an
\* AttributeError or on a KeyError) and a
\* new TradingMonitor is constructed from the configuration file, whose dry_run
\* flag the operator may have edited: __init__, lines 26-41.
Restart ==
  /\ pc \in {"idle", "halted", "crashed", "key_error", "killed"}
  /\ restarts < MaxRestarts
  /\ restarts' = restarts + 1
  /\ \E flag \in BOOLEAN : dry_run' = flag
  /\ LET hist == CleanupPriceHistory(saved.price_history)
         sold == CleanupSoldPositions(saved.sold_positions)
     IN /\ position_tracking' = saved.position_tracking
        /\ price_history' = hist
        /\ sold_positions' = sold
        /\ saved' = IF saved.complete /\ sold # saved.sold_positions
                    THEN Snapshot(saved.position_tracking, sold, hist)
                    ELSE saved
  /\ current_eur_balance' = config.trading_budget_eur * MoneyScale
  /\ eur_usd_rate' = 0
  /\ eur_usd_rate_timestamp' = 0
  \* load_config, lines 45-58: json.load raises on a file that is no document
  /\ pc' = IF saved.complete THEN "idle" ELSE "failed"
  /\ holdings' = EmptyMap
  /\ buy_holdings' = EmptyMap
  /\ todo' = <<>>
  /\ buy_opportunities' = <<>>
  /\ last_check' = NoCheck
  /\ last_exec' = NoExec
  /\ before' = NoBefore
  /\ last_high' = NoHigh
  /\ baselined' = {}
  /\ bought' = <<>>
  /\ market' = [a \in Assets |-> NoPrice]
  /\ UNCHANGED <<config, document, accounts, now, partial_sold, too_small, cycles, faults>>
  /\ UNCHANGED clientVars

\* TradingMonitor(config_file), lines 25-41, on a file the operator wrote, with
\* an empty position_tracking and without price_history and sold_positions
Construct ==
  /\ pc = "new"
  /\ IF ValidateConfig(document) = "ok"
     THEN /\ config' = ConfigOf(document)
          /\ dry_run' = (document.dry_run = "true")
          /\ current_eur_balance' = document.trading_budget_eur * MoneyScale
          /\ saved' = Snapshot(EmptyMap, EmptyMap, EmptyMap)
          /\ pc' = "idle"
     ELSE /\ pc' = "failed"
          /\ UNCHANGED <<config, dry_run, current_eur_balance, saved>>
  /\ UNCHANGED <<document, last_high, position_tracking, sold_positions, price_history,
                 eur_usd_rate, eur_usd_rate_timestamp, accounts, market, now, holdings,
                 buy_holdings, todo, buy_opportunities, last_check, last_exec, before,
                 partial_sold, too_small, baselined, bought, cycles, restarts, faults>>
  /\ UNCHANGED clientVars

\* the configuration file as the operator wrote it, with an empty
\* position_tracking and neither price_history nor sold_positions
AsDeployed == [position_tracking |-> EmptyMap, complete |-> TRUE]

\* what does not depend on the configuration
Blank ==
  /\ position_tracking = EmptyMap
  /\ sold_positions = EmptyMap
  /\ price_history = EmptyMap
  /\ eur_usd_rate = 0
  /\ eur_usd_rate_timestamp = 0
  /\ accounts \in {[a \in Assets |-> IF a = "BTC" THEN b ELSE AmountScale] : b \in {0, AmountScale}}
  /\ market = [a \in Assets |-> NoPrice]
  /\ now = 0
  /\ holdings = EmptyMap
  /\ buy_holdings = EmptyMap
  /\ todo = <<>>
  /\ buy_opportunities = <<>>
  /\ last_check = NoCheck
  /\ last_exec = NoExec
  /\ before = NoBefore
  /\ last_high = NoHigh
  /\ partial_sold = {}
  /\ too_small = {}
  /\ baselined = {}
  /\ bought = <<>>
  /\ cycles = 0
  /\ restarts = 0
  /\ faults = 0
  /\ ClientInit

\* The state after the first construction: the configuration file has empty
\* maps, and __init__ has added price_history and sold_positions and saved.
Init ==
  /\ config \in Configs
  /\ dry_run \in BOOLEAN
  /\ document = DocumentOf(config, dry_run)
  /\ saved = Snapshot(EmptyMap, EmptyMap, EmptyMap)
  /\ current_eur_balance = config.trading_budget_eur * MoneyScale
  /\ pc = "idle"
  /\ Blank

\* Before the construction: a configuration file and no TradingMonitor yet.
ConfigStart ==
  /\ document \in Documents
  /\ config = NoConfig
  /\ dry_run = FALSE
  /\ saved = AsDeployed
  /\ current_eur_balance = 0
  /\ pc = "new"
  /\ Blank

\* The construction and the first step of run.
ConfigNext ==
  \/ Construct
  \/ MonitorCycleBegin

ConfigSpec == ConfigStart /\ [][ConfigNext]_vars

\* A configuration file that validate_config accepts, the construction and the
\* cycles of the process that run() starts.
DeployStart ==
  /\ ConfigStart
  /\ ValidateConfig(document) = "ok"
  /\ document.minimum_balance_eur = 10

DeployNext ==
  \/ Construct
  \/ MonitorCycleBegin
  \/ TrackPrice
  \/ EvaluateHolding
  \/ CheckBuyTriggersBegin
  \/ CheckDip
  \/ CheckReentry
  \/ ExecuteBuy
  \/ CycleEnd

DeploySpec == DeployStart /\ [][DeployNext]_vars

Next ==
  \/ MonitorCycleBegin
  \/ TrackPrice
  \/ TrackPriceInterrupted
  \/ EvaluateHolding
  \/ CheckBuyTriggersBegin
  \/ CheckDip
  \/ CheckReentry
  \/ ExecuteBuy
  \/ CycleEnd
  \/ Restart

Spec == Init /\ [][Next]_vars

\* The client on its own: calls of api_request and get_price, one after another.
ClientNext ==
  \/ ApiRequestBegin
  \/ ApiAttempt
  \/ GetPriceBegin
  \/ GetPriceAttempt

ClientStart ==
  /\ Init
  /\ dry_run
  /\ accounts["BTC"] = 0
  /\ config.triggers.profit_target_sell_percent = 50
  /\ config.trading_budget_eur = 25

ClientSpec == ClientStart /\ [][ClientNext]_vars

\* Calls of get_price alone.
PriceNext ==
  \/ GetPriceBegin
  \/ GetPriceAttempt

PriceSpec == ClientStart /\ [][PriceNext]_vars

\* The converter on its own: conversions asked for one after another.
ConverterNext ==
  \/ ConvertToEurBegin
  \/ GetPriceAttempt

ConverterSpec == ClientStart /\ [][ConverterNext]_vars

\* Calls of api_request alone.  A running call goes on running: the retry loop
\* is sequential code.
ApiNext ==
  \/ ApiRequestBegin
  \/ ApiAttempt

ApiFairSpec == ClientStart /\ [][ApiNext]_vars /\ WF_vars(ApiAttempt)

\* Calls of get_product, one after another.
ProductNext ==
  \/ GetProductBegin
  \/ ApiAttempt

ProductSpec == ClientStart /\ [][ProductNext]_vars

\* Calls of round_to_precision, one after another.
PrecisionNext ==
  \/ RoundToPrecisionBegin
  \/ ApiAttempt

PrecisionSpec == ClientStart /\ [][PrecisionNext]_vars

\* ---- the claims -----------------------------------------------------------------------
Succeeded(exec) == exec.outcome \in {"dry_run", "success"}
Tracked == DOMAIN position_tracking

\* C1: every tracked Position has 0 <= total_sold <= amount and none is left
\* with total_sold = amount, for every configuration validate_config accepts.
C1_TotalSoldBelowAmount ==
  \A a \in Tracked :
    /\ 0 <= position_tracking[a].total_sold
    /\ position_tracking[a].total_sold < position_tracking[a].amount

\* C2: when the change of a tracked position is at or above both the profit
\* target and the final profit target, check_triggers emits a full-exit SELL and
\* not a partial SELL, whatever total_sold is.
C2_FinalProfitFirst ==
  ( /\ last_check.tracked
    /\ PctAtLeast(last_check.current_price_eur, last_check.entry_price_eur,
                  config.triggers.profit_target_percent)
    /\ PctAtLeast(last_check.current_price_eur, last_check.entry_price_eur,
                  config.triggers.final_profit_target_percent) )
  => ( /\ last_check.trigger.action = "SELL"
       /\ last_check.trigger.is_full_exit
       /\ last_check.trigger.reason = "Final profit target hit"
       /\ last_check.trigger.amount = last_check.amount )

C2_Witness ==
  /\ last_check.tracked
  /\ last_check.total_sold = 0
  /\ PctAtLeast(last_check.current_price_eur, last_check.entry_price_eur,
                config.triggers.final_profit_target_percent)
  /\ last_check.trigger.is_full_exit

\* C3: after a successful partial SELL of a position no later check_triggers
\* emits a partial SELL for that same position.
C3_PartialOnce ==
  (last_check.trigger.action = "SELL" /\ ~last_check.trigger.is_full_exit)
  => ~last_check.had_partial

C3_Witness ==
  /\ last_check.tracked
  /\ last_check.had_partial
  /\ PctAtLeast(last_check.current_price_eur, last_check.entry_price_eur,
                config.triggers.profit_target_percent)
  /\ last_check.trigger.action = "NONE"

\* C4: a full-exit SELL emitted for a position that has had a partial sell is
\* for the remaining amount, the recorded amount minus total_sold.
C4_FullExitSellsRemainder ==
  (last_check.trigger.is_full_exit /\ last_check.total_sold > 0)
  => last_check.trigger.amount = last_check.position_amount - last_check.total_sold

\* C5: when the change of a tracked position is at or below -stop_loss_percent,
\* check_triggers emits a full-exit SELL, with or without an earlier partial sell.
C5_StopLossAlways ==
  ( /\ last_check.tracked
    /\ PctAtMost(last_check.current_price_eur, last_check.entry_price_eur,
                 0 - config.triggers.stop_loss_percent) )
  => ( /\ last_check.trigger.action = "SELL"
       /\ last_check.trigger.is_full_exit
       /\ last_check.trigger.amount = last_check.amount )

C5_Witness ==
  /\ last_check.tracked
  /\ last_check.total_sold > 0
  /\ last_check.trigger.reason = "Stop loss hit"

\* C6: in the cycle that creates the baseline Position of a held asset, no trade
\* is emitted for that asset.
C6_NoTradeInBaselineCycle ==
  (last_exec.action # "NONE" /\ last_exec.outcome # "skipped")
  => last_exec.asset \notin baselined

\* C7: a partial-profit SELL is for the recorded amount times
\* profit_target_sell_percent / 100, and after its successful execution
\* total_sold has grown by exactly that amount and the Position is still tracked.
C7_PartialSellAmount ==
  (last_exec.action = "SELL" /\ ~last_exec.is_full_exit /\ Succeeded(last_exec))
  => ( /\ last_exec.amount * 100 =
            last_check.position_amount * config.triggers.profit_target_sell_percent
       /\ last_exec.asset \in Tracked
       /\ position_tracking[last_exec.asset].total_sold =
            last_check.total_sold + last_exec.amount
       /\ position_tracking[last_exec.asset].amount = last_check.position_amount )

C7_Witness ==
  /\ last_exec.action = "SELL"
  /\ ~last_exec.is_full_exit
  /\ Succeeded(last_exec)
  /\ last_exec.amount > 0

\* C8: after a successful full-exit SELL the asset has no Position and has a
\* SoldPosition with the sale's price, currency, amount and time, expiring 30
\* days after the sale.
C8_FullExitRecorded ==
  (last_exec.action = "SELL" /\ last_exec.is_full_exit /\ Succeeded(last_exec))
  => ( /\ last_exec.asset \notin Tracked
       /\ last_exec.asset \in DOMAIN sold_positions
       /\ sold_positions[last_exec.asset] =
            [sale_price |-> last_exec.price.price,
             sale_currency |-> last_exec.price.currency,
             sale_timestamp |-> now,
             sale_amount |-> last_exec.amount,
             expires_at |-> now + 30 * 24 * 3600] )

C8_Witness ==
  /\ last_exec.action = "SELL"
  /\ last_exec.is_full_exit
  /\ Succeeded(last_exec)

\* C9: when a cycle's buy-trigger evaluation starts, no SoldPosition with
\* now > expires_at is in the ledger.
C9_NoExpiredSoldAtBuyEvaluation ==
  pc \in {"dip", "reentry"}
  => \A a \in DOMAIN sold_positions : ~(now > sold_positions[a].expires_at)

\* C10: a re-entry BUY whose order submission failed leaves the asset's
\* SoldPosition in the ledger.
C10_FailedReentryKeepsSold ==
  (last_exec.action = "BUY" /\ last_exec.remove_from_sold /\ last_exec.outcome = "failed")
  => last_exec.asset \in DOMAIN sold_positions

\* C11: a BUY opportunity is executed only if the running budget minus the
\* notional and its fee stays at or above the minimum balance; otherwise it is
\* skipped and the budget, the positions and the sold positions are unchanged.
BuyCost ==
  config.triggers.buy_amount_eur * MoneyScale
  + config.triggers.buy_amount_eur * AmountScale * RateDen * config.taker_fee_rate

C11_BuyOnlyIfAffordable ==
  last_exec.action = "BUY"
  => IF last_exec.outcome = "skipped"
     THEN /\ before.balance - BuyCost < config.minimum_balance_eur * MoneyScale
          /\ current_eur_balance = before.balance
          /\ position_tracking = before.position_tracking
          /\ sold_positions = before.sold_positions
     ELSE before.balance - BuyCost >= config.minimum_balance_eur * MoneyScale

C11_Witness ==
  /\ last_exec.action = "BUY"
  /\ last_exec.outcome = "skipped"
  /\ before.balance < config.trading_budget_eur * MoneyScale

\* the EUR value, in money units, of amount at the quoted price under rate
QuotedValue(exec, rate) ==
  exec.amount * exec.price.price * FeeDen
  * (IF exec.price.currency = "EUR" THEN RateDen ELSE rate)

\* C12: in dry-run mode a trade submits no order, and the budget and the
\* Position are updated as a filled order at the quoted price would update them.
C12_DryRunNoOrder ==
  (dry_run /\ last_exec.action \in {"SELL", "BUY"} /\ last_exec.outcome # "skipped")
  => /\ last_exec.outcome = "dry_run"
     /\ last_exec.orders = 0
     /\ \E rate \in FreshRates \cup {USD_TO_EUR_FALLBACK} :
          LET value == QuotedValue(last_exec, rate)
              fee == (value \div FeeDen) * config.taker_fee_rate
          IN current_eur_balance =
               IF last_exec.action = "SELL" THEN before.balance + value - fee
               ELSE before.balance - value - fee
     /\ IF last_exec.action = "BUY"
        THEN /\ last_exec.asset \in Tracked
             /\ position_tracking[last_exec.asset] =
                  [entry_price |-> last_exec.price.price,
                   entry_currency |-> last_exec.price.currency,
                   amount |-> last_exec.amount, entry_time |-> now,
                   total_sold |-> 0, too_small_to_sell |-> FALSE]
        ELSE IF last_exec.is_full_exit
             THEN last_exec.asset \notin Tracked
             ELSE /\ last_exec.asset \in Tracked
                  /\ position_tracking[last_exec.asset].total_sold =
                       before.position_tracking[last_exec.asset].total_sold
                       + last_exec.amount
     /\ \A a \in DOMAIN before.position_tracking \ {last_exec.asset} :
          a \in Tracked /\ position_tracking[a] = before.position_tracking[a]

C12_Witness ==
  /\ dry_run
  /\ last_exec.action = "BUY"
  /\ last_exec.outcome = "dry_run"
  /\ last_exec.price.currency = "USDC"

\* C13: in live mode a SELL whose floored amount is below the pair's minimum
\* order size submits no order, flags the Position too_small_to_sell, changes
\* nothing else and lets the cycle continue.  (A floored amount is at most the
\* amount, so an amount below the minimum is floored below it.)
C13_TooSmallSellFlagged ==
  (~dry_run /\ last_exec.action = "SELL" /\ last_exec.amount < BaseMinSize)
  => /\ pc # "crashed"
     /\ last_exec.orders = 0
     /\ current_eur_balance = before.balance
     /\ sold_positions = before.sold_positions
     /\ last_exec.asset \in Tracked
     /\ position_tracking[last_exec.asset] =
          [before.position_tracking[last_exec.asset] EXCEPT !.too_small_to_sell = TRUE]

\* C14: in live mode a SELL whose floored amount is at least the pair's minimum
\* order size submits exactly one order, and the cycle goes on without an
\* exception.  (The amounts sold here are whole coins, which flooring keeps.)
C14_LiveSellSubmitsOneOrder ==
  (~dry_run /\ last_exec.action = "SELL" /\ last_exec.amount >= BaseMinSize
     /\ last_exec.amount % AmountScale = 0)
  => /\ pc # "crashed"
     /\ last_exec.orders = 1

\* the holdings the loop has still to evaluate after asset a
HoldingsAfter(a) ==
  LET ks == KeysInOrder(holdings)
      i == CHOOSE k \in 1..Len(ks) : ks[k] = a
  IN SubSeq(ks, i + 1, Len(ks))

\* C15: when the price of a held asset cannot be fetched, the asset is skipped:
\* no Position is created or changed, no trade is made, the budget is unchanged,
\* no exception ends the cycle and the remaining holdings are still evaluated.
C15_PriceUnavailableSkips ==
  (last_check.asset # "NONE" /\ ~last_check.price_ok)
  => /\ position_tracking = before.position_tracking
     /\ sold_positions = before.sold_positions
     /\ current_eur_balance = before.balance
     /\ last_exec = NoExec
     /\ pc = "holdings"
     /\ todo = HoldingsAfter(last_check.asset)

C15_Witness ==
  /\ last_check.asset = "BTC"
  /\ ~last_check.price_ok
  /\ "BTC" \notin Tracked
  /\ todo = <<"PEPE">>

\* C16: in live mode a rejected or failed order leaves the budget and the
\* Positions as they were before the decision, and leaves what the trigger
\* fired on in place, so that the trigger can fire again in a later cycle.
C16_FailedOrderAbandoned ==
  (~dry_run /\ last_exec.outcome = "failed")
  => /\ current_eur_balance = before.balance
     /\ position_tracking = before.position_tracking
     /\ sold_positions = before.sold_positions

C18_ClientErrorNotRetried ==
  ~(wire.n > 1 /\ wire.after = "4xx")

\* C19: between two consecutive requests the client dispatches, at least the
\* minimum inter-request interval elapses.
C19_MinimumInterval ==
  wire.prev_time >= 0 => wire.time - wire.prev_time >= REQUEST_INTERVAL

\* C20: an authenticated request carries a token made for that attempt, bound
\* to the request's method and path, expiring at most 120 s after it was made,
\* and sent with no request before.
C20_FreshBoundToken ==
  wire.auth
  => /\ wire.token.uri = <<wire.method, wire.path>>
     /\ wire.token.minted_at = wire.time
     /\ wire.token.exp - wire.token.minted_at <= 120 * TicksPerSecond
     /\ ~wire.reused

C20_Witness ==
  /\ wire.auth
  /\ wire.method = "POST"
  /\ wire.n = 3
  /\ wire.after = "5xx"

\* the quotes of a preference list, and the requests a call made for quote q
Listed(quotes) == {quotes[i] : i \in 1..Len(quotes)}

\* C21: get_price returns the quote of the earliest currency of the preference
\* list for which a request found a positive price, tagged with the pair used;
\* it requests the listed currencies only, in the list's order, each at most 3
\* times, and returns not-found exactly when no request found a price.
C21_EarliestQuoteWins ==
  result.kind = "get_price"
  => LET tried == result.tried
         k == Len(tried)
     IN /\ k >= 1 /\ k <= Len(result.quotes)
        /\ \A i \in 1..k : /\ tried[i].quote = result.quotes[i]
                            /\ tried[i].attempts \in 1..3
                            /\ tried[i].quote \in Listed(result.quotes)
        /\ \A i \in 1..(k - 1) : ~tried[i].found
        /\ result.value \in {"ok", "None"}
        /\ result.value = "ok"
           <=> \E i \in 1..k : tried[i].found
        /\ result.value = "ok"
           => /\ result.currency = result.quotes[k]
              /\ result.pair = <<IF result.quotes = <<"EUR">> THEN "USDC" ELSE "BTC",
                                  result.quotes[k]>>
        /\ result.value = "None" => k = Len(result.quotes)

C21_Witness ==
  /\ result.kind = "get_price"
  /\ result.value = "ok"
  /\ result.currency = "EUR"
  /\ result.quotes = <<"USDC", "EUR", "USDT">>
  /\ result.tried[1].attempts = 3

\* C22: convert_to_eur returns an amount for EUR, USD, USDC and USDT and never
\* raises; when the fetch of the rate fails, whatever the failure, the amount is
\* converted at the static fallback rate.
C22_ConversionTotal ==
  result.kind = "convert_to_eur"
  => /\ result.value = "ok"
     /\ result.currency \in {"EUR", "USD", "USDC", "USDT"}
     /\ result.rate > 0
     /\ result.currency = "EUR" => result.rate = RateDen
     /\ (result.source \notin {"same", "cached"} /\ result.status # "price")
        => result.rate = 23

C22_Witness ==
  /\ result.kind = "convert_to_eur"
  /\ result.currency = "USDT"
  /\ result.status = "no_price"
  /\ result.attempts = 3
  /\ result.rate = 23

\* C23: two fetches of the exchange rate are at least 3600 s apart, whatever the
\* outcome of the first was.
C23_OneRefreshPerWindow ==
  \A i, j \in DOMAIN refreshes :
    i < j => refreshes[j] - refreshes[i] >= 3600 * TicksPerSecond

\* the entries of a history that are inside the retention window
Retained(history) ==
  SelectSeq(history, LAMBDA entry : entry.timestamp > now - 7 * 24 * 3600)

\* the EUR value of a history entry at rate, in 1/RateDen EUR
EntryEur(entry, rate) ==
  entry.price * (IF entry.currency = "EUR" THEN RateDen ELSE rate)

\* C24: the rolling high of a dip-buy comparison is the price of an entry that
\* is inside the 7-day retention window, and there is no rolling high when no
\* entry is: an expired entry never decides it.
C24_RollingHighIgnoresExpired ==
  last_high.value # 0
  => \E i \in DOMAIN Retained(last_high.history),
        rate \in FreshRates \cup {USD_TO_EUR_FALLBACK} :
       last_high.value = EntryEur(Retained(last_high.history)[i], rate)

\* C25: the rolling high a dip-buy comparison uses in a cycle is computed
\* without the price that the same cycle recorded (every entry it reads was
\* recorded before the cycle began; the clock stands still within a cycle).
C25_RollingHighExcludesThisCycle ==
  \A i \in DOMAIN last_high.history : last_high.history[i].timestamp < now

\* C26: after each state-changing operation that ran to its end the snapshot on
\* stable storage equals the position, sold-position and price-history maps in
\* memory, including after the trims done at startup.
C26_SnapshotEqualsMemory ==
  pc \notin {"killed", "failed"}
  => saved = Snapshot(position_tracking, sold_positions, price_history)

\* C27: an engine restarted between two cycles has the positions, the sold
\* positions and the price history (less what has expired) and the running
\* budget of the end of the last completed cycle.
C27_RestartKeepsLedger ==
  [][(pc = "idle" /\ restarts' = restarts + 1)
     => /\ position_tracking' = position_tracking
        /\ sold_positions' = CleanupSoldPositions(sold_positions)
        /\ price_history' = CleanupPriceHistory(price_history)
        /\ current_eur_balance' = current_eur_balance]_vars

\* C28: the configuration file on stable storage is at every moment a
\* complete snapshot, the one before a save or the one after it, also when the
\* process is interrupted or killed inside save_config.
C28_SnapshotWriteAtomic ==
  saved.complete

\* C29: a cycle that starts with the running budget below the minimum balance
\* submits no order and changes no position, sold position or price history,
\* and after it the loop runs no other cycle: the process has ended.
C29_HaltBelowFloor ==
  /\ [][(pc = "idle" /\ pc' # "idle" /\ restarts' = restarts
          /\ current_eur_balance < config.minimum_balance_eur * MoneyScale)
        => /\ pc' = "halted"
           /\ UNCHANGED <<position_tracking, sold_positions, price_history, saved,
                          current_eur_balance, accounts, cycles, last_exec>>]_vars
  /\ [][pc = "halted" => (restarts' = restarts + 1 /\ cycles' = cycles)]_vars

C29_Witness ==
  /\ pc = "halted"
  /\ current_eur_balance < config.minimum_balance_eur * MoneyScale
  /\ cycles = 0

\* a configuration file with one of the defects: a required field or a
\* required trigger missing, a budget or a polling interval that is not positive,
\* a negative floor, or a wrong type of dry_run, tracked_assets or
\* position_tracking
Defective(doc) ==
  \/ \E f \in RequiredFields : f \notin doc.fields
  \/ \E t \in RequiredTriggers : t \notin doc.triggers
  \/ doc.trading_budget_eur <= 0
  \/ doc.check_interval_minutes <= 0
  \/ doc.minimum_balance_eur < 0
  \/ doc.dry_run \notin {"true", "false"}
  \/ doc.tracked_assets # "list"
  \/ doc.position_tracking # "dict"

\* C30: with a defective configuration file no TradingMonitor comes to exist:
\* the construction fails, no cycle runs, no order is submitted and the file
\* is not written.
C30_InvalidConfigFatal ==
  Defective(document)
  => /\ pc \in {"new", "failed"}
     /\ cycles = 0
     /\ faults = 0
     /\ last_exec = NoExec
     /\ saved = AsDeployed
     /\ config = NoConfig

C30_Witness ==
  /\ pc = "failed"
  /\ document.fields = RequiredFields
  /\ document.triggers = RequiredTriggers
  /\ document.trading_budget_eur = 25
  /\ document.dry_run = "1"

\* C31: once get_product has returned a pair's metadata, every later
\* get_product for that pair returns that same metadata and dispatches no
\* request; a fetch that failed is not cached, and the next get_product for the
\* pair dispatches a request again.
C31_ProductCachedOnce ==
  result.kind = "get_product"
  => /\ result.known # NoProduct
        => /\ result.requests = 0
           /\ result.value = "ok"
           /\ result.product = result.known
     /\ result.known = NoProduct => result.requests \in 1..3
     /\ result.value = "None" => result.product_id \notin DOMAIN product_cache
     /\ result.value = "ok" => product_cache[result.product_id] = result.product

C31_Witness ==
  /\ result.kind = "get_product"
  /\ result.known # NoProduct
  /\ result.requests = 0
  /\ result.product = result.known

\* float(base_increment) in 1/Nano coin: the increment a document declares
DigitOf(c) ==
  LET digits == <<"0", "1", "2", "3", "4", "5", "6", "7", "8", "9">>
  IN (CHOOSE i \in 1..10 : digits[i] = c) - 1

RECURSIVE NumberOf(_)
NumberOf(s) ==
  IF s = <<>> THEN 0 ELSE NumberOf(SubSeq(s, 1, Len(s) - 1)) * 10 + DigitOf(s[Len(s)])

IncrementOf(base_increment) ==
  IF \E i \in 1..Len(base_increment) : base_increment[i] = "."
  THEN LET dot == CHOOSE i \in 1..Len(base_increment) : base_increment[i] = "."
           whole == SubSeq(base_increment, 1, dot - 1)
           frac == SubSeq(base_increment, dot + 1, Len(base_increment))
       IN NumberOf(whole) * Nano + NumberOf(frac) * (Nano \div (10 ^ Len(frac)))
  ELSE NumberOf(base_increment) * Nano

\* C32: a SELL amount is rounded to the largest multiple of the pair's declared
\* base increment that is not greater than the amount, whatever the increment,
\* a power of ten or not; without metadata it is floored to 8 decimals.
C32_SellFlooredToIncrement ==
  (result.kind = "round_to_precision" /\ result.side = "SELL")
  => IF result.product = NoProduct
     THEN /\ result.rounded <= result.amount
          /\ result.amount - result.rounded < 10
          /\ result.rounded % 10 = 0
     ELSE LET increment == IncrementOf(IF result.product.base_increment = <<>>
                                       THEN DefaultIncrement
                                       ELSE result.product.base_increment)
          IN /\ result.rounded <= result.amount
             /\ result.amount - result.rounded < increment
             /\ result.rounded % increment = 0

\* C33: a buy-the-dip BUY of the fixed notional is emitted for a buy-asset
\* exactly when the asset is not held at the venue, get_7day_high returned a high
\* for it and the current price in EUR is at least buy_dip_percent below that
\* high; without a high none is emitted.
C33_DipBuyExactlyWhenDue ==
  /\ last_high.triggered
     <=> ( /\ last_high.asset # "NONE"
           /\ ~last_high.held
           /\ last_high.value # 0
           /\ PctAtMost(last_high.current, last_high.value,
                        0 - config.triggers.buy_dip_percent) )
  /\ \A i \in DOMAIN buy_opportunities :
       buy_opportunities[i].amount_eur = config.triggers.buy_amount_eur

C35_SameCurrencyChangeIsRaw ==
  (last_check.tracked /\ last_check.entry_currency = last_check.price.currency)
  => last_check.current_price_eur * last_check.entry_price
       = last_check.entry_price_eur * last_check.price.price

\* C36: when a monitoring cycle has ended, no asset has both a tracked Position
\* and a SoldPosition.
C36_PositionOrSoldPosition ==
  pc = "idle" => DOMAIN position_tracking \cap DOMAIN sold_positions = {}

\* C37: in one monitoring cycle at most one BUY is executed per asset, also
\* when the asset is due for a dip-buy and for a re-entry at once.
C37_OneBuyPerAssetPerCycle ==
  \A i, j \in DOMAIN bought : i # j => bought[i] # bought[j]

\* C38: an executed BUY takes from the running budget exactly the cost that
\* can_afford_buy checked for it, the fixed notional plus its fee, whatever the
\* quote currency of the price and the exchange rate; so a BUY leaves the budget
\* at or above the minimum balance.
C38_BuyDebitIsCheckedCost ==
  (last_exec.action = "BUY" /\ Succeeded(last_exec))
  => /\ before.balance - current_eur_balance = BuyCost
     /\ current_eur_balance >= config.minimum_balance_eur * MoneyScale

\* C39: no buy-the-dip BUY is emitted for an asset that has a tracked Position,
\* in dry-run mode as in live mode; so a dip-buy is not repeated in a later
\* cycle while the Position it opened exists.
C39_NoDipBuyOfTrackedAsset ==
  last_high.triggered => ~last_high.tracked

\* C40: a configuration that validate_config accepted lets every cycle run
\* without a KeyError: each trigger setting a cycle reads (buy_dip_percent and
\* buy_amount_eur among them) is present.
C40_AcceptedConfigRunsCycle ==
  (ValidateConfig(document) = "ok") => pc # "key_error"

====
